---- MODULE Spec2Model ----
(***************************************************************************)
(* Model of src/distributed.py: the per-device orchestrator device_fn and  *)
(* the graph interpreter node_interpreter.                                 *)
(*                                                                         *)
(* Spec       : world_size processes, each running device_fn once.         *)
(* SpecInterp : two runs of node_interpreter over one graph, model, input. *)
(***************************************************************************)
EXTENDS Integers, Sequences, FiniteSets, TLC

\* ------------------------------------------------------------------------
\* Bounds and program constants
\* ------------------------------------------------------------------------
WorldSize == 2

Repeat == 4

WarmupIters == 2

Ranks == 0 .. (WorldSize - 1)

Latencies == {10, 20}

Placements == {"Shard0", "Replicate"}

NoValue == "none"

MaxNodes == 3

\* Graphs the sharding pass may hand back to device_fn: only the node kind and
\* the placement recorded on the node matter to device_fn (lines 192-196).
PlanNodes == [op : {"placeholder", "call_function"}, placement : Placements]

\* Run configurations (cli_args): warm-up and timed repeat counts.
RunConfigs == [warmup : {1, 2}, repeat : {3, 4}]

PlanGraphs == {<<n>> : n \in PlanNodes} \cup {<<n, m>> : n \in PlanNodes, m \in PlanNodes}

VARIABLES
    pc,            \* rank -> step the rank is at, or "returned" / "raised"
    waiting,       \* rank -> TRUE while blocked inside a collective
    arrived,       \* rank -> number of collectives the rank has entered
    created,       \* rank -> number of init_process_group calls that returned
    destroyed,     \* rank -> number of destroy_process_group calls
    device,        \* rank -> device index bound by torch.cuda.set_device
    hist,          \* rank -> calls made so far (init_process_group: on return)
    passGraph,     \* graph the sharding pass computes for this run's arguments
    cliArgs,       \* the run configuration passed to device_fn
    mg,            \* rank -> graph returned by autosharding_runner
    inputSharding, \* rank -> placement used for distribute_tensor
    invoked,       \* rank -> number of completed model invocations
    localMean,     \* rank -> mean latency of the rank's timed invocations
    timeTaken,     \* rank -> time_taken reported at line 211
    failedAt,      \* rank -> step at which device_fn raised
    graph,         \* mg.fx_graph.nodes handed to node_interpreter
    model,         \* mg.model: attribute name -> value
    input,         \* the inputs argument
    irank,         \* run -> rank argument of the run
    verbosity,     \* run -> level the logger is set to
    ipc,           \* run -> "running", "returned" or "raised"
    idx,           \* run -> position of the node being handled
    env,           \* run -> the env dictionary: node name -> value
    result,        \* run -> the local variable result
    err,           \* run -> the exception that left node_interpreter
    retval,        \* run -> the value returned to the caller
    trace,         \* run -> records written through rlog
    opCalls        \* run -> names of the nodes whose target was invoked

ovars == <<pc, waiting, arrived, created, destroyed, device, hist, passGraph,
           cliArgs, mg,
           inputSharding, invoked, localMean, timeTaken, failedAt>>

ivars == <<graph, model, input, irank, verbosity, ipc, idx, env, result, err,
           retval, trace, opCalls>>

vars == <<ovars, ivars>>

\* ------------------------------------------------------------------------
\* device_fn
\* ------------------------------------------------------------------------
StepOrder == <<"Joining", "Planning", "Materializing", "DistributingInput",
               "Executing", "Leaving", "returned">>

StepIndex(s) == CHOOSE i \in 1 .. Len(StepOrder) : StepOrder[i] = s

MaxOf(S) == CHOOSE x \in S : \A y \in S : y <= x

\* A collective completes on a rank only once every rank has entered it.
BarrierOpen(r) == \A q \in Ranks : arrived[q] >= arrived[r]

\* An exception leaves device_fn: there is no try/finally around lines 151-214.
Raise(r) ==
    /\ pc' = [pc EXCEPT ![r] = "raised"]
    /\ failedAt' = [failedAt EXCEPT ![r] = pc[r]]

Call(r, ev) == hist' = [hist EXCEPT ![r] = Append(@, ev)]

EnterCollective(r) ==
    /\ waiting' = [waiting EXCEPT ![r] = TRUE]
    /\ arrived' = [arrived EXCEPT ![r] = @ + 1]

InitOrch ==
    /\ pc = [r \in Ranks |-> "Joining"]
    /\ waiting = [r \in Ranks |-> FALSE]
    /\ arrived = [r \in Ranks |-> 0]
    /\ created = [r \in Ranks |-> 0]
    /\ destroyed = [r \in Ranks |-> 0]
    /\ device = [r \in Ranks |-> -1]
    /\ hist = [r \in Ranks |-> <<>>]
    /\ passGraph \in PlanGraphs
    /\ cliArgs \in RunConfigs
    /\ mg = [r \in Ranks |-> <<>>]
    /\ inputSharding = [r \in Ranks |-> NoValue]
    /\ invoked = [r \in Ranks |-> 0]
    /\ localMean = [r \in Ranks |-> 0]
    /\ timeTaken = [r \in Ranks |-> 0]
    /\ failedAt = [r \in Ranks |-> NoValue]

\* lines 146-151: dist.init_process_group is called and reaches the rendezvous,
\* or raises before reaching it.
JoinEnter(r) ==
    /\ pc[r] = "Joining" /\ ~waiting[r]
    /\ \E ok \in BOOLEAN :
          IF ok
          THEN EnterCollective(r) /\ UNCHANGED <<pc, failedAt>>
          ELSE Raise(r) /\ UNCHANGED <<waiting, arrived>>
    /\ UNCHANGED <<created, destroyed, device, hist, mg, inputSharding, invoked,
                   localMean, timeTaken>>
    /\ UNCHANGED <<passGraph, cliArgs, ivars>>

\* Variant of JoinComplete that swallows a set_device failure and carries on.
JoinCompleteSwallow(r) ==
    /\ pc[r] = "Joining" /\ waiting[r] /\ BarrierOpen(r)
    /\ waiting' = [waiting EXCEPT ![r] = FALSE]
    /\ created' = [created EXCEPT ![r] = @ + 1]
    /\ Call(r, "init_process_group")
    /\ \E ok \in BOOLEAN :
          /\ device' = [device EXCEPT ![r] = IF ok THEN r ELSE @]
          /\ pc' = [pc EXCEPT ![r] = "Planning"]
          /\ failedAt' = [failedAt EXCEPT ![r] = IF ok THEN @ ELSE "Joining"]
    /\ UNCHANGED <<arrived, destroyed, mg, inputSharding, invoked, localMean,
                   timeTaken>>
    /\ UNCHANGED <<passGraph, cliArgs, ivars>>

\* Variant of JoinComplete that binds every process to device 0.
JoinCompleteDeviceZero(r) ==
    /\ pc[r] = "Joining" /\ waiting[r] /\ BarrierOpen(r)
    /\ waiting' = [waiting EXCEPT ![r] = FALSE]
    /\ created' = [created EXCEPT ![r] = @ + 1]
    /\ Call(r, "init_process_group")
    /\ \E ok \in BOOLEAN :
          IF ok
          THEN /\ device' = [device EXCEPT ![r] = 0]
               /\ pc' = [pc EXCEPT ![r] = "Planning"]
               /\ UNCHANGED failedAt
          ELSE Raise(r) /\ UNCHANGED device
    /\ UNCHANGED <<arrived, destroyed, mg, inputSharding, invoked, localMean,
                   timeTaken>>
    /\ UNCHANGED <<passGraph, cliArgs, ivars>>

\* lines 151-153: the rendezvous completes, the group exists, and the process
\* binds itself to the device indexed by its rank (or set_device raises).
JoinComplete(r) ==
    /\ pc[r] = "Joining" /\ waiting[r] /\ BarrierOpen(r)
    /\ waiting' = [waiting EXCEPT ![r] = FALSE]
    /\ created' = [created EXCEPT ![r] = @ + 1]
    /\ Call(r, "init_process_group")
    /\ \E ok \in BOOLEAN :
          IF ok
          THEN /\ device' = [device EXCEPT ![r] = r]
               /\ pc' = [pc EXCEPT ![r] = "Planning"]
               /\ UNCHANGED failedAt
          ELSE Raise(r) /\ UNCHANGED device
    /\ UNCHANGED <<arrived, destroyed, mg, inputSharding, invoked, localMean,
                   timeTaken>>
    /\ UNCHANGED <<passGraph, cliArgs, ivars>>

\* line 151: the group join is the only collective with a timeout.
JoinTimeout(r) ==
    /\ pc[r] = "Joining" /\ waiting[r] /\ ~BarrierOpen(r)
    /\ waiting' = [waiting EXCEPT ![r] = FALSE]
    /\ Raise(r)
    /\ UNCHANGED <<arrived, created, destroyed, device, hist, mg,
                   inputSharding, invoked, localMean, timeTaken>>
    /\ UNCHANGED <<passGraph, cliArgs, ivars>>

\* lines 156-164: synthesize the input and run the sharding pass (local; every
\* rank computes the same graph from the same arguments).
Planning(r) ==
    /\ pc[r] = "Planning"
    /\ Call(r, "autosharding_runner")
    /\ \E ok \in BOOLEAN :
          IF ok
          THEN /\ mg' = [mg EXCEPT ![r] = passGraph]
               /\ pc' = [pc EXCEPT ![r] = "Materializing"]
               /\ UNCHANGED failedAt
          ELSE Raise(r) /\ UNCHANGED mg
    /\ UNCHANGED <<waiting, arrived, created, destroyed, device,
                   inputSharding, invoked, localMean, timeTaken>>
    /\ UNCHANGED <<passGraph, cliArgs, ivars>>

\* Variant of MaterializeEnter in which only rank 0 distributes the module.
MaterializeEnterRankZero(r) ==
    /\ pc[r] = "Materializing" /\ ~waiting[r]
    /\ IF r = 0
       THEN /\ Call(r, "distribute_module")
            /\ \E ok \in BOOLEAN :
                  IF ok
                  THEN EnterCollective(r) /\ UNCHANGED <<pc, failedAt>>
                  ELSE Raise(r) /\ UNCHANGED <<waiting, arrived>>
       ELSE /\ pc' = [pc EXCEPT ![r] = "DistributingInput"]
            /\ UNCHANGED <<hist, waiting, arrived, failedAt>>
    /\ UNCHANGED <<created, destroyed, device, mg, inputSharding, invoked,
                   localMean, timeTaken>>
    /\ UNCHANGED <<passGraph, cliArgs, ivars>>

\* lines 167-182: DeviceMesh, then distribute_module under distributed_timing.
MaterializeEnter(r) ==
    /\ pc[r] = "Materializing" /\ ~waiting[r]
    /\ Call(r, "distribute_module")
    /\ \E ok \in BOOLEAN :
          IF ok
          THEN EnterCollective(r) /\ UNCHANGED <<pc, failedAt>>
          ELSE Raise(r) /\ UNCHANGED <<waiting, arrived>>
    /\ UNCHANGED <<created, destroyed, device, mg, inputSharding, invoked,
                   localMean, timeTaken>>
    /\ UNCHANGED <<passGraph, cliArgs, ivars>>

\* Variant of MaterializeComplete that falls back to Planning afterwards.
MaterializeCompleteBack(r) ==
    /\ pc[r] = "Materializing" /\ waiting[r] /\ BarrierOpen(r)
    /\ waiting' = [waiting EXCEPT ![r] = FALSE]
    /\ \E ok \in BOOLEAN :
          IF ok
          THEN pc' = [pc EXCEPT ![r] = IF Len(hist[r]) < 4 THEN "Planning"
                                       ELSE "DistributingInput"]
               /\ UNCHANGED failedAt
          ELSE Raise(r)
    /\ UNCHANGED <<arrived, created, destroyed, device, hist, mg,
                   inputSharding, invoked, localMean, timeTaken>>
    /\ UNCHANGED <<passGraph, cliArgs, ivars>>

\* lines 169-189: distribute_module returns (or raises) once all ranks joined it.
MaterializeComplete(r) ==
    /\ pc[r] = "Materializing" /\ waiting[r] /\ BarrierOpen(r)
    /\ waiting' = [waiting EXCEPT ![r] = FALSE]
    /\ \E ok \in BOOLEAN :
          IF ok
          THEN pc' = [pc EXCEPT ![r] = "DistributingInput"] /\ UNCHANGED failedAt
          ELSE Raise(r)
    /\ UNCHANGED <<arrived, created, destroyed, device, hist, mg,
                   inputSharding, invoked, localMean, timeTaken>>
    /\ UNCHANGED <<passGraph, cliArgs, ivars>>

\* Variant of InputShardingOf that takes the placement of the last node of any
\* kind once a placeholder has been seen.
RECURSIVE InputShardingOfAnyNode(_, _)
InputShardingOfAnyNode(g, acc) ==
    IF g = <<>> THEN acc
    ELSE InputShardingOfAnyNode(Tail(g),
             IF Head(g).op = "placeholder" \/ acc # NoValue
             THEN Head(g).placement ELSE acc)

\* lines 192-196: the loop keeps the placement of the last placeholder node.
RECURSIVE InputShardingOf(_, _)
InputShardingOf(g, acc) ==
    IF g = <<>> THEN acc
    ELSE InputShardingOf(Tail(g),
                         IF Head(g).op = "placeholder" THEN Head(g).placement ELSE acc)

\* lines 192-203: read the placement, then call distribute_tensor.  With no
\* placeholder node input_sharding is unbound and line 198 raises.
DistributeInputEnter(r) ==
    /\ pc[r] = "DistributingInput" /\ ~waiting[r]
    /\ LET s == InputShardingOf(mg[r], NoValue) IN
          IF s = NoValue
          THEN Raise(r) /\ UNCHANGED <<waiting, arrived, hist, inputSharding>>
          ELSE /\ inputSharding' = [inputSharding EXCEPT ![r] = s]
               /\ Call(r, "distribute_tensor")
               /\ \E ok \in BOOLEAN :
                     IF ok
                     THEN EnterCollective(r) /\ UNCHANGED <<pc, failedAt>>
                     ELSE Raise(r) /\ UNCHANGED <<waiting, arrived>>
    /\ UNCHANGED <<created, destroyed, device, mg, invoked, localMean, timeTaken>>
    /\ UNCHANGED <<passGraph, cliArgs, ivars>>

DistributeInputComplete(r) ==
    /\ pc[r] = "DistributingInput" /\ waiting[r] /\ BarrierOpen(r)
    /\ waiting' = [waiting EXCEPT ![r] = FALSE]
    /\ \E ok \in BOOLEAN :
          IF ok
          THEN pc' = [pc EXCEPT ![r] = "Executing"] /\ UNCHANGED failedAt
          ELSE Raise(r)
    /\ UNCHANGED <<arrived, created, destroyed, device, hist, mg,
                   inputSharding, invoked, localMean, timeTaken>>
    /\ UNCHANGED <<passGraph, cliArgs, ivars>>

\* distributed_average_timing (lines 205-210): WarmupIters warm-up invocations
\* of the model followed by Repeat timed ones.
TotalInvocations == WarmupIters + Repeat

\* One invocation of mg.model on the distributed input begins.
InvokeEnter(r) ==
    /\ pc[r] = "Executing" /\ ~waiting[r] /\ invoked[r] < TotalInvocations
    /\ Call(r, "model")
    /\ \E ok \in BOOLEAN :
          IF ok
          THEN EnterCollective(r) /\ UNCHANGED <<pc, failedAt>>
          ELSE Raise(r) /\ UNCHANGED <<waiting, arrived>>
    /\ UNCHANGED <<created, destroyed, device, mg, inputSharding, invoked,
                   localMean, timeTaken>>
    /\ UNCHANGED <<passGraph, cliArgs, ivars>>

\* Variant of InvokeComplete that does not wait for the other ranks.
InvokeCompleteNoBarrier(r) ==
    /\ pc[r] = "Executing" /\ waiting[r] /\ invoked[r] < TotalInvocations
    /\ waiting' = [waiting EXCEPT ![r] = FALSE]
    /\ \E ok \in BOOLEAN :
          IF ok
          THEN /\ invoked' = [invoked EXCEPT ![r] = @ + 1]
               /\ IF invoked[r] + 1 = TotalInvocations
                  THEN \E l \in Latencies : localMean' = [localMean EXCEPT ![r] = l]
                  ELSE UNCHANGED localMean
               /\ UNCHANGED <<pc, failedAt>>
          ELSE Raise(r) /\ UNCHANGED <<invoked, localMean>>
    /\ UNCHANGED <<arrived, created, destroyed, device, hist, mg,
                   inputSharding, timeTaken>>
    /\ UNCHANGED <<passGraph, cliArgs, ivars>>

\* The invocation returns; after the last timed one the local mean is known.
InvokeComplete(r) ==
    /\ pc[r] = "Executing" /\ waiting[r] /\ invoked[r] < TotalInvocations
    /\ BarrierOpen(r)
    /\ waiting' = [waiting EXCEPT ![r] = FALSE]
    /\ \E ok \in BOOLEAN :
          IF ok
          THEN /\ invoked' = [invoked EXCEPT ![r] = @ + 1]
               /\ IF invoked[r] + 1 = TotalInvocations
                  THEN \E l \in Latencies : localMean' = [localMean EXCEPT ![r] = l]
                  ELSE UNCHANGED localMean
               /\ UNCHANGED <<pc, failedAt>>
          ELSE Raise(r) /\ UNCHANGED <<invoked, localMean>>
    /\ UNCHANGED <<arrived, created, destroyed, device, hist, mg,
                   inputSharding, timeTaken>>
    /\ UNCHANGED <<passGraph, cliArgs, ivars>>

\* The rank contributes its local mean to the timing reduction.
ReduceEnter(r) ==
    /\ pc[r] = "Executing" /\ ~waiting[r] /\ invoked[r] = TotalInvocations
    /\ Call(r, "reduce")
    /\ EnterCollective(r)
    /\ UNCHANGED <<pc, failedAt, created, destroyed, device, mg, inputSharding,
                   invoked, localMean, timeTaken>>
    /\ UNCHANGED <<passGraph, cliArgs, ivars>>

\* Result of the reduction over the local means of all ranks.
ReducedTiming == MaxOf({localMean[q] : q \in Ranks})

\* Variant of ReduceComplete that reports the rank's own mean.
ReduceCompleteLocal(r) ==
    /\ pc[r] = "Executing" /\ waiting[r] /\ invoked[r] = TotalInvocations
    /\ BarrierOpen(r)
    /\ waiting' = [waiting EXCEPT ![r] = FALSE]
    /\ timeTaken' = [timeTaken EXCEPT ![r] = localMean[r]]
    /\ pc' = [pc EXCEPT ![r] = "Leaving"]
    /\ UNCHANGED <<failedAt, arrived, created, destroyed, device, hist, mg,
                   inputSharding, invoked, localMean>>
    /\ UNCHANGED <<passGraph, cliArgs, ivars>>

\* Variant of ReduceComplete that returns without waiting for the other ranks.
ReduceCompleteNoBarrier(r) ==
    /\ pc[r] = "Executing" /\ waiting[r] /\ invoked[r] = TotalInvocations
    /\ waiting' = [waiting EXCEPT ![r] = FALSE]
    /\ timeTaken' = [timeTaken EXCEPT ![r] = ReducedTiming]
    /\ pc' = [pc EXCEPT ![r] = "Leaving"]
    /\ UNCHANGED <<failedAt, arrived, created, destroyed, device, hist, mg,
                   inputSharding, invoked, localMean>>
    /\ UNCHANGED <<passGraph, cliArgs, ivars>>

\* lines 205-211: distributed_average_timing returns time_taken, which is logged.
ReduceComplete(r) ==
    /\ pc[r] = "Executing" /\ waiting[r] /\ invoked[r] = TotalInvocations
    /\ BarrierOpen(r)
    /\ waiting' = [waiting EXCEPT ![r] = FALSE]
    /\ timeTaken' = [timeTaken EXCEPT ![r] = ReducedTiming]
    /\ pc' = [pc EXCEPT ![r] = "Leaving"]
    /\ UNCHANGED <<failedAt, arrived, created, destroyed, device, hist, mg,
                   inputSharding, invoked, localMean>>
    /\ UNCHANGED <<passGraph, cliArgs, ivars>>

\* Variant of Leaving that may also destroy the group before the timed run.
LeavingEarly(r) ==
    /\ UNCHANGED <<passGraph, cliArgs, ivars>>
    /\ \/ /\ pc[r] = "Leaving"
          /\ Call(r, "destroy_process_group")
          /\ destroyed' = [destroyed EXCEPT ![r] = @ + 1]
          /\ pc' = [pc EXCEPT ![r] = "returned"]
          /\ UNCHANGED <<failedAt, waiting, arrived, created, device, mg,
                         inputSharding, invoked, localMean, timeTaken>>
       \/ /\ pc[r] = "Executing" /\ ~waiting[r] /\ destroyed[r] = 0
          /\ Call(r, "destroy_process_group")
          /\ destroyed' = [destroyed EXCEPT ![r] = @ + 1]
          /\ UNCHANGED <<pc, failedAt, waiting, arrived, created, device, mg,
                         inputSharding, invoked, localMean, timeTaken>>

\* line 214: dist.destroy_process_group(), then device_fn returns.
Leaving(r) ==
    /\ pc[r] = "Leaving"
    /\ Call(r, "destroy_process_group")
    /\ destroyed' = [destroyed EXCEPT ![r] = @ + 1]
    /\ pc' = [pc EXCEPT ![r] = "returned"]
    /\ UNCHANGED <<failedAt, waiting, arrived, created, device, mg,
                   inputSharding, invoked, localMean, timeTaken>>
    /\ UNCHANGED <<passGraph, cliArgs, ivars>>

\* The steps of the process running device_fn under rank r.
RankNext(r) ==
    \/ JoinEnter(r)
    \/ JoinComplete(r)
    \/ JoinTimeout(r)
    \/ Planning(r)
    \/ MaterializeEnter(r)
    \/ MaterializeComplete(r)
    \/ DistributeInputEnter(r)
    \/ DistributeInputComplete(r)
    \/ InvokeEnter(r)
    \/ InvokeComplete(r)
    \/ ReduceEnter(r)
    \/ ReduceComplete(r)
    \/ Leaving(r)

NextOrch == \E r \in Ranks : RankNext(r)

\* ------------------------------------------------------------------------
\* node_interpreter
\* ------------------------------------------------------------------------
Runs == {1, 2}

RunRanks == {0, 1}

Levels == {"INFO", "DEBUG"}

\* Values: tensors, distributed tensors, values of any other type (no .shape),
\* and tuples of values.
Val(t, v) == [ty |-> t, v |-> v]

Tuple(items) == [ty |-> "tuple", items |-> items]

Unset == [ty |-> "unset"]

\* What a call hands back to its caller.
NotReturned == [kind |-> "pending", env |-> <<>>]

ReturnedNone == [kind |-> "None", env |-> <<>>]

NoError == [kind |-> "none", node |-> 0, origin |-> "none"]

\* The inputs argument is a tensor or a distributed tensor (docstring, line 35).
InputValues == {Val(t, 1) : t \in {"DTensor", "Tensor"}}

ModelAttrs == [w |-> Val("DTensor", 2)]

\* An argument is a reference to a node by name or a literal.
NodeRef(j) == [kind |-> "node", name |-> j]

Literal == [kind |-> "lit", name |-> 0]

\* meta["mase"]["common"]["results"]: absent, or the number of data_out_i
\* entries (data_out_0 .. data_out_{n-1}) it holds.
NoResults == -1

NodeTemplates ==
    {[op |-> "placeholder", target |-> "", args |-> <<>>, kwargs |-> <<>>,
      meta |-> NoResults],
     [op |-> "output", target |-> "", args |-> <<>>, kwargs |-> <<>>,
      meta |-> NoResults],
     [op |-> "call_function", target |-> "fail", args |-> <<Literal>>,
      kwargs |-> <<>>, meta |-> NoResults],
     [op |-> "call_function", target |-> "identity", args |-> <<>>,
      kwargs |-> <<NodeRef(MaxNodes)>>, meta |-> NoResults],
     [op |-> "call_function", target |-> "identity", args |-> <<>>,
      kwargs |-> <<NodeRef(1)>>, meta |-> 1]}
    \cup [op : {"get_attr"}, target : {"w", "missing"}, args : {<<>>},
          kwargs : {<<>>}, meta : {NoResults}]
    \cup [op : {"call_function"}, target : {"identity"},
          args : {<<NodeRef(j)>> : j \in 1 .. MaxNodes}, kwargs : {<<>>},
          meta : {NoResults}]
    \cup [op : {"call_function"}, target : {"pair"}, args : {<<NodeRef(1)>>},
          kwargs : {<<>>}, meta : {NoResults, 1}]

\* fx gives every node of a graph a distinct name: node i is named i.
Named(t, i) ==
    [name |-> i, op |-> t.op, target |-> t.target, args |-> t.args,
     kwargs |-> t.kwargs, meta |-> t.meta]

GraphsOfLength(n) ==
    {[i \in 1 .. n |-> Named(ts[i], i)] : ts \in [1 .. n -> NodeTemplates]}

HasShape(x) == x.ty \in {"DTensor", "Tensor"}

\* load_arg(a, env): every node reference is looked up in env by name.
LoadArg(a, e) ==
    IF \E i \in 1 .. Len(a) : a[i].kind = "node" /\ a[i].name \notin DOMAIN e
    THEN [ok |-> FALSE, vals |-> <<>>]
    ELSE [ok |-> TRUE,
          vals |-> [i \in 1 .. Len(a) |->
                       IF a[i].kind = "node" THEN e[a[i].name] ELSE Val("Other", 0)]]

\* node.target(*args, **kwargs) for the operations of the model: deterministic
\* functions of their operands.
Apply(target, args, kwargs) ==
    LET operands == args \o kwargs IN
    CASE target = "identity" ->
            IF operands = <<>> THEN [ok |-> FALSE, val |-> Unset]
            ELSE [ok |-> TRUE, val |-> operands[1]]
      [] target = "pair" ->
            IF operands = <<>> THEN [ok |-> FALSE, val |-> Unset]
            ELSE [ok |-> TRUE, val |-> Tuple(<<operands[1], operands[1]>>)]
      [] OTHER -> [ok |-> FALSE, val |-> Unset]

\* line 95
RList(res) == IF res.ty = "tuple" THEN res.items ELSE <<res>>

\* Variant of Core whose argument lookup yields None for a name that is not in
\* env (env.get) instead of raising.
CoreLenient(node, e, res, inp, mdl) ==
    CASE node.op = "placeholder" ->
            [raised |-> FALSE, err |-> NoError, val |-> inp, called |-> FALSE]
      [] node.op = "get_attr" ->
            IF node.target \in DOMAIN mdl
            THEN [raised |-> FALSE, err |-> NoError, val |-> mdl[node.target],
                  called |-> FALSE]
            ELSE [raised |-> TRUE,
                  err |-> [kind |-> "AttributeResolutionError", node |-> 0,
                           origin |-> "fetch_attr"],
                  val |-> res, called |-> FALSE]
      [] node.op = "call_function" ->
            LET get(a) == [i \in 1 .. Len(a) |->
                             IF a[i].kind = "node" /\ a[i].name \in DOMAIN e
                             THEN e[a[i].name] ELSE Val("Other", 0)]
                out == Apply(node.target, get(node.args), get(node.kwargs))
            IN  IF out.ok
                THEN [raised |-> FALSE, err |-> NoError, val |-> out.val,
                      called |-> TRUE]
                ELSE [raised |-> TRUE,
                      err |-> [kind |-> "UnderlyingError", node |-> 0,
                               origin |-> "operation"],
                      val |-> res, called |-> TRUE]
      [] OTHER -> [raised |-> FALSE, err |-> NoError, val |-> res, called |-> FALSE]

\* Outcome of the statements of one loop iteration that are not tracing:
\* lines 41, 50, 66-67, 93.  For a node of any other kind result keeps the
\* value left by the previous iteration.
Core(node, e, res, inp, mdl) ==
    CASE node.op = "placeholder" ->
            [raised |-> FALSE, err |-> NoError, val |-> inp, called |-> FALSE]
      [] node.op = "get_attr" ->
            IF node.target \in DOMAIN mdl
            THEN [raised |-> FALSE, err |-> NoError, val |-> mdl[node.target],
                  called |-> FALSE]
            ELSE [raised |-> TRUE,
                  err |-> [kind |-> "AttributeResolutionError", node |-> 0,
                           origin |-> "fetch_attr"],
                  val |-> res, called |-> FALSE]
      [] node.op = "call_function" ->
            LET a == LoadArg(node.args, e)
                k == LoadArg(node.kwargs, e)
            IN  IF ~a.ok \/ ~k.ok
                THEN [raised |-> TRUE,
                      err |-> [kind |-> "UnboundReference", node |-> 0,
                               origin |-> "load_arg"],
                      val |-> res, called |-> FALSE]
                ELSE LET out == Apply(node.target, a.vals, k.vals) IN
                     IF out.ok
                     THEN [raised |-> FALSE, err |-> NoError, val |-> out.val,
                           called |-> TRUE]
                     ELSE [raised |-> TRUE,
                           err |-> [kind |-> "UnderlyingError", node |-> 0,
                                    origin |-> "operation"],
                           val |-> res, called |-> TRUE]
      [] OTHER -> [raised |-> FALSE, err |-> NoError, val |-> res, called |-> FALSE]

\* Index (1-based) of the first result whose expected spec cannot be looked
\* up at lines 105-108, or 0: the result is a DTensor, the node has results
\* metadata, and the metadata has no data_out entry for that result.
FirstMissingSpec(node, rl) ==
    LET bad == {i \in 1 .. Len(rl) :
                   rl[i].ty = "DTensor" /\ node.meta # NoResults /\ i - 1 >= node.meta}
    IN  IF bad = {} THEN 0 ELSE CHOOSE i \in bad : \A j \in bad : i <= j

\* The exception raised by the tracing statements of the iteration, if any:
\* the f-strings of lines 45 and 54 read inputs.shape, lines 106-108 index the
\* results metadata.  The message is built before rlog looks at the level.
TraceError(node, val, inp) ==
    CASE node.op \in {"placeholder", "get_attr"} /\ ~HasShape(inp) ->
            [kind |-> "AttributeError", node |-> 0, origin |-> "trace"]
      [] node.op = "call_function" /\ FirstMissingSpec(node, RList(val)) # 0 ->
            [kind |-> "KeyError", node |-> 0, origin |-> "trace"]
      [] OTHER -> NoError

Rec(node, lvl, what) == [level |-> lvl, node |-> node.name, what |-> what]

\* lines 96-128: the records for results i .. n; a DTensor result whose
\* expected spec is recorded gets a second record.
RECURSIVE ResultRecords(_, _, _, _)
ResultRecords(node, rl, i, n) ==
    IF i > n THEN <<>>
    ELSE <<Rec(node, "DEBUG", "result")>>
         \o (IF rl[i].ty = "DTensor" /\ node.meta # NoResults /\ i - 1 < node.meta
             THEN <<Rec(node, "DEBUG", "expected_spec")>> ELSE <<>>)
         \o ResultRecords(node, rl, i + 1, n)

\* Records handed to rlog while the node is handled (all levels).
TraceRecords(node, c, inp) ==
    CASE node.op = "placeholder" ->
            IF HasShape(inp) THEN <<Rec(node, "DEBUG", "placeholder")>> ELSE <<>>
      [] node.op = "get_attr" ->
            IF c.raised \/ ~HasShape(inp) THEN <<>>
            ELSE <<Rec(node, "DEBUG", "get_attr")>>
                 \o (IF c.val.ty = "DTensor"
                     THEN <<Rec(node, "DEBUG", "local_shape")>> ELSE <<>>)
      [] node.op = "call_function" ->
            IF ~c.called THEN <<>>
            ELSE <<Rec(node, "INFO", "running")>>
                 \o [i \in 1 .. Len(node.args) |-> Rec(node, "DEBUG", "arg")]
                 \o (IF c.raised THEN <<>>
                     ELSE LET rl == RList(c.val)
                              m == FirstMissingSpec(node, rl)
                              n == IF m = 0 THEN Len(rl) ELSE m
                          IN  ResultRecords(node, rl, 1, n))
      [] OTHER -> <<>>

\* One iteration of the loop of lines 38-131 up to, not including, line 131.
HandleNode(node, e, res, inp, mdl) ==
    LET c == Core(node, e, res, inp, mdl)
        t == IF c.raised THEN NoError ELSE TraceError(node, c.val, inp)
    IN  [raised |-> c.raised \/ t # NoError,
         err |-> IF c.raised THEN c.err ELSE t,
         val |-> c.val,
         called |-> c.called,
         recs |-> TraceRecords(node, c, inp)]

\* rlog: a record is written when its level is enabled, prefixed by the rank.
Emitted(recs, rk, verb) ==
    LET keep == SelectSeq(recs, LAMBDA x : x.level = "INFO" \/ verb = "DEBUG")
    IN  [i \in 1 .. Len(keep) |->
            [rank |-> rk, level |-> keep[i].level, node |-> keep[i].node,
             what |-> keep[i].what]]

\* Variant of Bind that keeps only the first output of a multi-output result.
BindFirst(e, name, v) ==
    [n \in (DOMAIN e) \cup {name} |->
        IF n = name THEN (IF v.ty = "tuple" THEN v.items[1] ELSE v) ELSE e[n]]

\* env[node.name] = result
Bind(e, name, v) ==
    [n \in (DOMAIN e) \cup {name} |-> IF n = name THEN v ELSE e[n]]

InitInterp ==
    /\ \E n \in 1 .. MaxNodes : graph \in GraphsOfLength(n)
    /\ model = ModelAttrs
    /\ input \in InputValues
    /\ irank \in [Runs -> RunRanks]
    /\ verbosity \in [Runs -> Levels]
    /\ ipc = [k \in Runs |-> "running"]
    /\ idx = [k \in Runs |-> 1]
    /\ env = [k \in Runs |-> <<>>]
    /\ result = [k \in Runs |-> Unset]
    /\ err = [k \in Runs |-> NoError]
    /\ retval = [k \in Runs |-> NotReturned]
    /\ trace = [k \in Runs |-> <<>>]
    /\ opCalls = [k \in Runs |-> <<>>]

\* The two calls are independent (env and result are locals); the second call
\* is made once the first has finished.
MayRun(k) == ipc[k] = "running" /\ \A j \in Runs : j < k => ipc[j] # "running"

\* Variant of InterpStep that builds the trace messages only when the DEBUG
\* level is enabled.
InterpStepLazyTrace(k) ==
    /\ MayRun(k) /\ idx[k] <= Len(graph)
    /\ LET node == graph[idx[k]]
           h0 == HandleNode(node, env[k], result[k], input, model)
           c == Core(node, env[k], result[k], input, model)
           h == IF verbosity[k] = "DEBUG" \/ c.raised THEN h0
                ELSE [h0 EXCEPT !.raised = FALSE, !.err = NoError]
       IN  /\ trace' = [trace EXCEPT ![k] = @ \o Emitted(h.recs, irank[k], verbosity[k])]
           /\ opCalls' = [opCalls EXCEPT ![k] = IF h.called THEN Append(@, node.name) ELSE @]
           /\ IF h.raised
              THEN /\ ipc' = [ipc EXCEPT ![k] = "raised"]
                   /\ err' = [err EXCEPT ![k] = h.err]
                   /\ result' = [result EXCEPT ![k] = h.val]
                   /\ UNCHANGED <<idx, env>>
              ELSE IF h.val = Unset
              THEN /\ ipc' = [ipc EXCEPT ![k] = "raised"]
                   /\ err' = [err EXCEPT ![k] =
                                [kind |-> "UnboundLocalError", node |-> 0,
                                 origin |-> "bind"]]
                   /\ UNCHANGED <<idx, env, result>>
              ELSE /\ result' = [result EXCEPT ![k] = h.val]
                   /\ env' = [env EXCEPT ![k] = Bind(@, node.name, h.val)]
                   /\ idx' = [idx EXCEPT ![k] = @ + 1]
                   /\ UNCHANGED <<ipc, err>>
    /\ UNCHANGED <<graph, model, input, irank, verbosity, retval>>
    /\ UNCHANGED ovars

\* Variant of InterpStep that records on the node how many results it
\* produced (a write into node.meta).
InterpStepAnnotate(k) ==
    /\ MayRun(k) /\ idx[k] <= Len(graph)
    /\ LET node == graph[idx[k]]
           h == HandleNode(node, env[k], result[k], input, model)
       IN  /\ trace' = [trace EXCEPT ![k] = @ \o Emitted(h.recs, irank[k], verbosity[k])]
           /\ opCalls' = [opCalls EXCEPT ![k] = IF h.called THEN Append(@, node.name) ELSE @]
           /\ IF h.raised
              THEN /\ ipc' = [ipc EXCEPT ![k] = "raised"]
                   /\ err' = [err EXCEPT ![k] = h.err]
                   /\ result' = [result EXCEPT ![k] = h.val]
                   /\ UNCHANGED <<idx, env>>
              ELSE IF h.val = Unset
              THEN /\ ipc' = [ipc EXCEPT ![k] = "raised"]
                   /\ err' = [err EXCEPT ![k] =
                                [kind |-> "UnboundLocalError", node |-> 0,
                                 origin |-> "bind"]]
                   /\ UNCHANGED <<idx, env, result>>
              ELSE /\ result' = [result EXCEPT ![k] = h.val]
                   /\ env' = [env EXCEPT ![k] = Bind(@, node.name, h.val)]
                   /\ idx' = [idx EXCEPT ![k] = @ + 1]
                   /\ UNCHANGED <<ipc, err>>
    /\ graph' = [graph EXCEPT ![idx[k]].meta =
                    IF result'[k] = Unset THEN @ ELSE Len(RList(result'[k]))]
    /\ UNCHANGED <<model, input, irank, verbosity, retval>>
    /\ UNCHANGED ovars

\* Variant of InterpStep that registers the node in env before handling it,
\* so that the entry is there when handling raises.
InterpStepBindOnError(k) ==
    /\ MayRun(k) /\ idx[k] <= Len(graph)
    /\ LET node == graph[idx[k]]
           h == HandleNode(node, env[k], result[k], input, model)
       IN  /\ trace' = [trace EXCEPT ![k] = @ \o Emitted(h.recs, irank[k], verbosity[k])]
           /\ opCalls' = [opCalls EXCEPT ![k] = IF h.called THEN Append(@, node.name) ELSE @]
           /\ IF h.raised
              THEN /\ ipc' = [ipc EXCEPT ![k] = "raised"]
                   /\ err' = [err EXCEPT ![k] = h.err]
                   /\ result' = [result EXCEPT ![k] = h.val]
                   /\ env' = [env EXCEPT ![k] = Bind(@, node.name, Val("Other", 0))]
                   /\ UNCHANGED idx
              ELSE IF h.val = Unset
              THEN /\ ipc' = [ipc EXCEPT ![k] = "raised"]
                   /\ err' = [err EXCEPT ![k] =
                                [kind |-> "UnboundLocalError", node |-> 0,
                                 origin |-> "bind"]]
                   /\ UNCHANGED <<idx, env, result>>
              ELSE /\ result' = [result EXCEPT ![k] = h.val]
                   /\ env' = [env EXCEPT ![k] = Bind(@, node.name, h.val)]
                   /\ idx' = [idx EXCEPT ![k] = @ + 1]
                   /\ UNCHANGED <<ipc, err>>
    /\ UNCHANGED graph
    /\ UNCHANGED <<model, input, irank, verbosity, retval>>
    /\ UNCHANGED ovars

\* lines 38-131: one iteration of the loop on the next node.  An exception
\* leaves the function at once; otherwise line 131 binds result under the
\* node's name (and raises when result was never assigned).
InterpStep(k) ==
    /\ MayRun(k) /\ idx[k] <= Len(graph)
    /\ LET node == graph[idx[k]]
           h == HandleNode(node, env[k], result[k], input, model)
       IN  /\ trace' = [trace EXCEPT ![k] = @ \o Emitted(h.recs, irank[k], verbosity[k])]
           /\ opCalls' = [opCalls EXCEPT ![k] = IF h.called THEN Append(@, node.name) ELSE @]
           /\ IF h.raised
              THEN /\ ipc' = [ipc EXCEPT ![k] = "raised"]
                   /\ err' = [err EXCEPT ![k] = h.err]
                   /\ result' = [result EXCEPT ![k] = h.val]
                   /\ UNCHANGED <<idx, env>>
              ELSE IF h.val = Unset
              THEN /\ ipc' = [ipc EXCEPT ![k] = "raised"]
                   /\ err' = [err EXCEPT ![k] =
                                [kind |-> "UnboundLocalError", node |-> 0,
                                 origin |-> "bind"]]
                   /\ UNCHANGED <<idx, env, result>>
              ELSE /\ result' = [result EXCEPT ![k] = h.val]
                   /\ env' = [env EXCEPT ![k] = Bind(@, node.name, h.val)]
                   /\ idx' = [idx EXCEPT ![k] = @ + 1]
                   /\ UNCHANGED <<ipc, err>>
    /\ UNCHANGED <<graph, model, input, irank, verbosity, retval>>
    /\ UNCHANGED ovars

\* The loop is exhausted; the function has no return statement and returns
\* None.
InterpReturn(k) ==
    /\ MayRun(k) /\ idx[k] > Len(graph)
    /\ ipc' = [ipc EXCEPT ![k] = "returned"]
    /\ retval' = [retval EXCEPT ![k] = ReturnedNone]
    /\ UNCHANGED <<graph, model, input, irank, verbosity, idx, env, result, err,
                   trace, opCalls>>
    /\ UNCHANGED ovars

NextInterp == \E k \in Runs : InterpStep(k) \/ InterpReturn(k)

\* ------------------------------------------------------------------------
\* Specifications
\* ------------------------------------------------------------------------
\* Spec: no interpreter run is in progress.
InterpIdle ==
    /\ graph = <<>>
    /\ model = ModelAttrs
    /\ input = Val("DTensor", 1)
    /\ irank = [k \in Runs |-> 0]
    /\ verbosity = [k \in Runs |-> "INFO"]
    /\ ipc = [k \in Runs |-> "idle"]
    /\ idx = [k \in Runs |-> 1]
    /\ env = [k \in Runs |-> <<>>]
    /\ result = [k \in Runs |-> Unset]
    /\ err = [k \in Runs |-> NoError]
    /\ retval = [k \in Runs |-> NotReturned]
    /\ trace = [k \in Runs |-> <<>>]
    /\ opCalls = [k \in Runs |-> <<>>]

Init == InitOrch /\ InterpIdle

\* SpecInterp: device_fn is not running.
OrchIdle ==
    /\ pc = [r \in Ranks |-> "idle"]
    /\ waiting = [r \in Ranks |-> FALSE]
    /\ arrived = [r \in Ranks |-> 0]
    /\ created = [r \in Ranks |-> 0]
    /\ destroyed = [r \in Ranks |-> 0]
    /\ device = [r \in Ranks |-> -1]
    /\ hist = [r \in Ranks |-> <<>>]
    /\ passGraph = <<>>
    /\ cliArgs = [warmup |-> WarmupIters, repeat |-> Repeat]
    /\ mg = [r \in Ranks |-> <<>>]
    /\ inputSharding = [r \in Ranks |-> NoValue]
    /\ invoked = [r \in Ranks |-> 0]
    /\ localMean = [r \in Ranks |-> 0]
    /\ timeTaken = [r \in Ranks |-> 0]
    /\ failedAt = [r \in Ranks |-> NoValue]

Next == NextOrch

InterpInit == OrchIdle /\ InitInterp

InterpNext == NextInterp

Spec == Init /\ [][Next]_vars

\* Every rank is its own operating-system process and keeps running.
Fairness == \A r \in Ranks : WF_vars(RankNext(r))

SpecFair == Init /\ [][Next]_vars /\ Fairness

SpecInterp == InterpInit /\ [][InterpNext]_vars

\* ------------------------------------------------------------------------
\* Properties of device_fn (checked under Spec)
\* ------------------------------------------------------------------------
StepsAfterJoin == {"Planning", "Materializing", "DistributingInput", "Executing"}

GroupOps == {"autosharding_runner", "distribute_module", "distribute_tensor",
             "model", "reduce"}

CountOf(seq, ev) == Cardinality({i \in 1 .. Len(seq) : seq[i] = ev})

\* C1: when a step executed after the group was created (Planning,
\* Materializing, Distributing Input or Executing) raises, the process group
\* has been destroyed exactly once by the time the error leaves device_fn.
TeardownOnError ==
    \A r \in Ranks :
        (pc[r] = "raised" /\ failedAt[r] \in StepsAfterJoin)
            => (created[r] = 1 /\ destroyed[r] = 1)

\* C2: on every rank the group is created at most once and destroyed at most
\* once, creation precedes destruction, and every sharding-pass call,
\* distribution and model invocation lies after the creation and before the
\* destruction.
GroupLifecycle ==
    \A r \in Ranks :
        /\ created[r] <= 1 /\ destroyed[r] <= 1 /\ destroyed[r] <= created[r]
        /\ CountOf(hist[r], "init_process_group") = created[r]
        /\ CountOf(hist[r], "destroy_process_group") = destroyed[r]
        /\ \A i \in 1 .. Len(hist[r]) :
              /\ hist[r][i] = "destroy_process_group"
                    => \E j \in 1 .. (i - 1) : hist[r][j] = "init_process_group"
              /\ hist[r][i] \in GroupOps
                    => /\ \E j \in 1 .. (i - 1) : hist[r][j] = "init_process_group"
                       /\ \A j \in 1 .. (i - 1) : hist[r][j] # "destroy_process_group"

GroupLifecycleWitness ==
    \E r \in Ranks :
        /\ pc[r] = "returned" /\ created[r] = 1 /\ destroyed[r] = 1
        /\ GroupOps \subseteq {hist[r][i] : i \in 1 .. Len(hist[r])}

\* C6: each rank moves through Joining, Planning, Materializing, Distributing
\* Input, Executing, Leaving in that order: a step is left only for the next
\* one (or for the raise), and none of the one-shot calls happens twice.
StepsInOrder ==
    /\ [][\A r \in Ranks :
            pc'[r] # pc[r]
                => \/ pc'[r] = "raised"
                   \/ (pc[r] # "raised"
                       /\ StepIndex(pc'[r]) = StepIndex(pc[r]) + 1)]_vars
    /\ [](\A r \in Ranks :
            \A ev \in {"init_process_group", "autosharding_runner",
                       "distribute_module", "distribute_tensor", "reduce",
                       "destroy_process_group"} : CountOf(hist[r], ev) <= 1)

StepsInOrderWitness ==
    \A r \in Ranks :
        /\ pc[r] = "returned"
        /\ hist[r] = <<"init_process_group", "autosharding_runner",
                       "distribute_module", "distribute_tensor">>
                     \o [i \in 1 .. TotalInvocations |-> "model"]
                     \o <<"reduce", "destroy_process_group">>

\* Rank r is blocked in a collective other than the join that some rank which
\* has raised never entered.
BlockedOnFailedPeer(r) ==
    /\ waiting[r] /\ pc[r] # "Joining"
    /\ \E q \in Ranks : pc[q] = "raised" /\ arrived[q] < arrived[r]

\* C7: once a rank has failed before reaching a collective other than the
\* join, every rank that waits in that collective stays there in every later
\* step: it never reaches Leaving and never returns.
BlockedForever ==
    [][\A r \in Ranks :
          BlockedOnFailedPeer(r)
              => /\ pc'[r] = pc[r] /\ waiting'[r] /\ arrived'[r] = arrived[r]
                 /\ destroyed'[r] = 0
                 /\ BlockedOnFailedPeer(r)']_vars

BlockedForeverWitness ==
    \E r \in Ranks :
        /\ BlockedOnFailedPeer(r) /\ pc[r] = "Executing"
        /\ \E q \in Ranks : pc[q] = "raised" /\ failedAt[q] = "Executing"

\* C8: the latency a rank reports after Executing is the reduction (maximum)
\* of the local means of all ranks, hence the same on every reporting rank.
AggregatedTiming ==
    \A r \in Ranks :
        pc[r] \in {"Leaving", "returned"}
            => /\ \E q \in Ranks : timeTaken[r] = localMean[q]
               /\ \A q \in Ranks : localMean[q] <= timeTaken[r]
               /\ \A q \in Ranks :
                     pc[q] \in {"Leaving", "returned"} => timeTaken[q] = timeTaken[r]

AggregatedTimingWitness ==
    \E r \in Ranks, q \in Ranks :
        /\ localMean[r] = 10 /\ localMean[q] = 20
        /\ pc[r] = "returned" /\ pc[q] = "returned"
        /\ timeTaken[r] = 20 /\ timeTaken[q] = 20

LaterWork == {"autosharding_runner", "distribute_module", "distribute_tensor",
              "model", "reduce"}

Events(r) == {hist[r][i] : i \in 1 .. Len(hist[r])}

\* C11: a rank on which Joining fails has raised, has done no later work (no
\* sharding pass, no distribution, no model invocation), and does nothing
\* more: it neither retries the join nor makes any further call.
JoinFailureAborts ==
    /\ [](\A r \in Ranks :
            failedAt[r] = "Joining"
                => /\ pc[r] = "raised"
                   /\ Events(r) \cap LaterWork = {}
                   /\ invoked[r] = 0)
    /\ [][\A r \in Ranks :
            failedAt[r] = "Joining"
                => /\ pc'[r] = pc[r] /\ hist'[r] = hist[r]
                   /\ arrived'[r] = arrived[r] /\ created'[r] = created[r]]_vars

JoinFailureAbortsWitness ==
    \E r \in Ranks, q \in Ranks :
        /\ failedAt[r] = "Joining" /\ created[r] = 1 /\ device[r] = -1
        /\ failedAt[q] = "Joining" /\ created[q] = 0

\* C12: by the end of Executing the model has been invoked W + T times, W and
\* T being the warm-up and timed repeat counts of the run configuration.
InvocationsFollowConfig ==
    \A r \in Ranks :
        pc[r] \in {"Leaving", "returned"}
            => /\ invoked[r] = cliArgs.warmup + cliArgs.repeat
               /\ CountOf(hist[r], "model") = cliArgs.warmup + cliArgs.repeat

PlaceholderPositions(g) == {i \in 1 .. Len(g) : g[i].op = "placeholder"}

\* C14: when the graph has exactly one placeholder node, the placement used
\* for distribute_tensor is the one recorded on that node, wherever it stands.
InputPlacementFromInputNode ==
    \A r \in Ranks :
        (inputSharding[r] # NoValue /\ Cardinality(PlaceholderPositions(mg[r])) = 1)
            => \A i \in PlaceholderPositions(mg[r]) :
                  inputSharding[r] = mg[r][i].placement

InputPlacementWitness ==
    \E r \in Ranks :
        /\ Len(mg[r]) = 2 /\ PlaceholderPositions(mg[r]) = {1}
        /\ mg[r][1].placement = "Shard0" /\ mg[r][2].placement = "Replicate"
        /\ inputSharding[r] = "Shard0"
        /\ "distribute_tensor" \in Events(r)

DeviceBinding ==
    /\ \A r \in Ranks :
          /\ device[r] \in {-1, r}
          /\ (pc[r] \notin {"Joining", "raised"}) => device[r] = r
    /\ \A r \in Ranks, q \in Ranks :
          (r # q /\ device[r] # -1) => device[r] # device[q]

DeviceBindingWitness ==
    /\ \A r \in Ranks : device[r] = r /\ pc[r] = "Executing"
    /\ Cardinality({device[r] : r \in Ranks}) = WorldSize

\* C20: in a fairly scheduled run in which no step fails, every rank
\* eventually destroys its process group and returns from device_fn.
Termination ==
    ([](\A r \in Ranks : pc[r] # "raised"))
        => <>(\A r \in Ranks : pc[r] = "returned" /\ destroyed[r] = 1 /\ ~waiting[r])

TerminationWitness ==
    \A r \in Ranks :
        /\ pc[r] = "returned" /\ destroyed[r] = 1
        /\ arrived[r] = TotalInvocations + 4

\* ------------------------------------------------------------------------
\* Properties of node_interpreter (checked under SpecInterp)
\* ------------------------------------------------------------------------
Finished(k) == ipc[k] \in {"returned", "raised"}

NamesBefore(i) == {graph[j].name : j \in 1 .. (i - 1)}

\* Node i is a call_function node one of whose args or kwargs names a node
\* that no earlier node of the graph binds.
UnboundAt(i) ==
    /\ graph[i].op = "call_function"
    /\ LET refs == graph[i].args \o graph[i].kwargs IN
          \E a \in 1 .. Len(refs) :
              refs[a].kind = "node" /\ refs[a].name \notin NamesBefore(i)

\* C3: a run never gets past a call_function node that references an unbound
\* name: it does not return, it binds neither that node nor a later one, it
\* never invokes the operation of that node or of a later one, and when it
\* stops at that node the error is the unbound reference.
UnboundReferenceDetected ==
    \A k \in Runs : \A i \in 1 .. Len(graph) :
        UnboundAt(i)
            => /\ ipc[k] # "returned"
               /\ idx[k] <= i
               /\ \A j \in i .. Len(graph) :
                     /\ graph[j].name \notin DOMAIN env[k]
                     /\ \A c \in 1 .. Len(opCalls[k]) : opCalls[k][c] # graph[j].name
               /\ (ipc[k] = "raised" /\ idx[k] = i)
                     => (err[k].kind = "UnboundReference" /\ err[k].origin = "load_arg")

UnboundReferenceWitness ==
    \E k \in Runs :
        /\ Len(graph) = 3 /\ UnboundAt(2)
        /\ graph[2].args = <<NodeRef(3)>>
        /\ ipc[k] = "raised" /\ idx[k] = 2
        /\ err[k].kind = "UnboundReference"
        /\ DOMAIN env[k] = {1}

\* C4: two runs over the same graph, model and input end the same way with
\* the same Environment, whatever rank and level each uses; while the second
\* run is under way its Environment agrees with the first run's.
Determinism ==
    /\ \A n \in DOMAIN env[2] : n \in DOMAIN env[1] /\ env[2][n] = env[1][n]
    /\ (Finished(1) /\ Finished(2))
          => /\ env[1] = env[2]
             /\ ipc[1] = ipc[2]
             /\ idx[1] = idx[2]
             /\ err[1] = err[2]

DeterminismWitness ==
    /\ ipc[1] = "returned" /\ ipc[2] = "returned"
    /\ irank[1] # irank[2] /\ verbosity[1] # verbosity[2]
    /\ trace[1] # trace[2]
    /\ Len(graph) = 3 /\ DOMAIN env[2] = {1, 2, 3}
    /\ opCalls[2] # <<>>

\* C5: a run that succeeds returns to its caller an Environment with one
\* entry per node of the graph, keyed by the node's name.
ReturnsEnvironment ==
    \A k \in Runs :
        ipc[k] = "returned"
            => /\ retval[k].kind = "Environment"
               /\ retval[k].env = env[k]
               /\ DOMAIN retval[k].env = {graph[i].name : i \in 1 .. Len(graph)}

\* The run with every trace statement removed: only the core statements and
\* the binding of line 131 remain.
RECURSIVE UntracedRun(_, _, _)
UntracedRun(i, e, res) ==
    IF i > Len(graph) THEN [status |-> "returned", idx |-> i, env |-> e]
    ELSE LET c == Core(graph[i], e, res, input, model) IN
         IF c.raised \/ c.val = Unset
         THEN [status |-> "raised", idx |-> i, env |-> e]
         ELSE UntracedRun(i + 1, Bind(e, graph[i].name, c.val), c.val)

\* C9: a finished run succeeded or failed, stopped at the node, and bound the
\* values that the same run without trace statements would have.
TraceIsDiagnostic ==
    \A k \in Runs :
        Finished(k)
            => LET u == UntracedRun(1, <<>>, Unset) IN
               /\ ipc[k] = u.status
               /\ idx[k] = u.idx
               /\ env[k] = u.env

\* C10: when the operation of a call_function node raises, the error that
\* leaves the interpreter is an OperationError carrying the node's name.
OperationErrorWrapped ==
    \A k \in Runs :
        (ipc[k] = "raised" /\ err[k].origin = "operation")
            => /\ err[k].kind = "OperationError"
               /\ err[k].node = graph[idx[k]].name

\* The call_function nodes that a run has bound, with what their operation
\* returned.
BoundCalls(k) == {i \in 1 .. (idx[k] - 1) : graph[i].op = "call_function"}

Returned(k, i) ==
    Apply(graph[i].target, LoadArg(graph[i].args, env[k]).vals,
          LoadArg(graph[i].kwargs, env[k]).vals).val

\* The name under which output j (0-based) of the node named n would be kept.
SubName(n, j) == n * (MaxNodes + 2) + j

\* C13 as stated: a single result is bound under the node's name, and each
\* output of a multi-output result is bound under its own sub-name.
SubNameBinding ==
    \A k \in Runs : \A i \in BoundCalls(k) :
        LET v == Returned(k, i) IN
        IF v.ty = "tuple"
        THEN \A j \in 1 .. Len(v.items) :
                /\ SubName(graph[i].name, j - 1) \in DOMAIN env[k]
                /\ env[k][SubName(graph[i].name, j - 1)] = v.items[j]
        ELSE /\ graph[i].name \in DOMAIN env[k]
             /\ env[k][graph[i].name] = v

\* C13 amended: whatever the operation returns, a single value or a tuple of
\* several outputs, is bound whole under the node's name, and env has no
\* other entries than one per node handled.
ResultBoundWhole ==
    \A k \in Runs :
        /\ DOMAIN env[k] = NamesBefore(idx[k])
        /\ \A i \in BoundCalls(k) : env[k][graph[i].name] = Returned(k, i)

ResultBoundWholeWitness ==
    \E k \in Runs : \E i \in BoundCalls(k), j \in BoundCalls(k) :
        /\ ipc[k] = "returned"
        /\ graph[i].target = "pair" /\ env[k][graph[i].name].ty = "tuple"
        /\ Len(env[k][graph[i].name].items) = 2
        /\ graph[j].target = "identity" /\ env[k][graph[j].name].ty # "tuple"

\* C16: no step of an interpretation changes the graph (its node sequence,
\* each node's kind, target, args, kwargs and metadata), the model's
\* attributes or the input.
InterpreterFrame ==
    [][graph' = graph /\ model' = model /\ input' = input]_vars

InterpreterFrameWitness ==
    \E k \in Runs :
        /\ ipc[k] = "returned" /\ Len(graph) >= 3
        /\ \E i \in 1 .. Len(graph) : graph[i].op = "get_attr"
        /\ opCalls[k] # <<>> /\ trace[k] # <<>>
        /\ \E i \in BoundCalls(k) : graph[i].meta # Len(RList(env[k][graph[i].name]))

\* What handling node i by its own kind produces.
OwnValue(k, i) ==
    CASE graph[i].op = "placeholder" -> input
      [] graph[i].op = "get_attr" -> model[graph[i].target]
      [] graph[i].op = "call_function" -> Returned(k, i)

\* C18: every entry of env belongs to a placeholder, get_attr or
\* call_function node and holds what handling that node produced; a node of
\* any other kind has no entry.
BoundByOwnHandling ==
    \A k \in Runs : \A i \in 1 .. Len(graph) :
        graph[i].name \in DOMAIN env[k]
            => /\ graph[i].op \in {"placeholder", "get_attr", "call_function"}
               /\ env[k][graph[i].name] = OwnValue(k, i)

\* C19: when handling a node raises, env holds exactly the nodes declared
\* before it and no operation of a later node has been invoked.
FailStop ==
    \A k \in Runs :
        ipc[k] = "raised"
            => /\ DOMAIN env[k] = NamesBefore(idx[k])
               /\ \A c \in 1 .. Len(opCalls[k]) :
                     opCalls[k][c] \in NamesBefore(idx[k] + 1)

FailStopWitness ==
    \E k \in Runs :
        /\ ipc[k] = "raised" /\ err[k].origin = "operation"
        /\ idx[k] = 2 /\ Len(graph) = 3 /\ graph[3].op = "call_function"
        /\ DOMAIN env[k] = {graph[1].name}
        /\ opCalls[k] = <<graph[2].name>>

====
